---- MODULE Spec2Model ----
(***************************************************************************)
(* A model of hegic_greeks.py: the GetData class, its constructor and its  *)
(* four methods run_query, format_data, get_iv and get_greeks, together    *)
(* with the three things it talks to: the spot price API, the subgraph     *)
(* query API and the py_vollib numerical library.                          *)
(*                                                                         *)
(* Numbers.  Python floats are kept exact: a quotient is a normalised      *)
(* fraction <<num, den>>, and a value computed by the numerical library is *)
(* an uninterpreted term [coef, fn, args]: the library function fn applied *)
(* to args, times the integer coef.  NaN is a term of its own.             *)
(***************************************************************************)
EXTENDS Integers, Sequences, FiniteSets, TLC

VARIABLES
    pc,        \* where the calling program is: "new", "idle", "greeks", "done"
    self,      \* the GetData instance: query, asset, ticker, spot
    clock,     \* the wall clock, what time.time() returns
    nan_sigma, \* what this build of py_vollib does with sigma = NaN
    df,        \* the local df of the get_iv or get_greeks call in progress
    posts,     \* the query API calls of the operation in progress
    gets,      \* the spot price API calls made so far
    result     \* what the last operation returned or raised

vars == <<pc, self, clock, nan_sigma, df, posts, gets, result>>

----------------------------------------------------------------------------
(* Bounds of the model *)

\* The longest list of option records the query API answers with.
MaxRows == 2

\* The wall clock runs over 0 .. MaxClock.
MaxClock == 1

----------------------------------------------------------------------------
(* Exact arithmetic *)

Abs(n) == IF n < 0 THEN -n ELSE n

RECURSIVE GCD(_, _)
GCD(a, b) == IF b = 0 THEN a ELSE GCD(b, a % b)

\* The float n / d, d > 0, as a fraction in lowest terms.
Frac(n, d) == LET g == GCD(Abs(n), d) IN <<n \div g, d \div g>>

FracPos(f) == f[1] > 0

\* f < k and f >= k for a fraction f and an integer k.
FracLt(f, k) == f[1] < k * f[2]

Max(a, b) == IF a > b THEN a ELSE b

\* numpy's nan, and a value the numerical library computed.
NaN == [coef |-> 0, fn |-> "nan", args |-> <<>>]

Term(fn, args) == [coef |-> 1, fn |-> fn, args |-> args]

IsNaN(v) == v.fn = "nan"

\* v * k on floats: NaN stays NaN.
Times(v, k) == IF IsNaN(v) THEN NaN ELSE [v EXCEPT !.coef = v.coef * k]

----------------------------------------------------------------------------
(* What a Python call ends with: a returned value or a raised exception *)

Return(v) == [kind |-> "return", value |-> v, exc |-> "", code |-> 0, query |-> ""]

Raise(e) == [kind |-> "raise", value |-> <<>>, exc |-> e, code |-> 0, query |-> ""]

\* Exception("Query failed to run by returning code of {}. {}".format(code, query))
RaiseQueryFailed(c, q) ==
    [kind |-> "raise", value |-> <<>>, exc |-> "Exception", code |-> c, query |-> q]

NoResult == [op |-> "none", kind |-> "none", value |-> <<>>, exc |-> "", code |-> 0, query |-> ""]

Finished(op, o) ==
    [op |-> op, kind |-> o.kind, value |-> o.value, exc |-> o.exc, code |-> o.code,
     query |-> o.query]

\* The outcome of a loop whose i-th iteration ends with steps[i]: the first
\* exception that escapes an iteration ends the loop and the call.
Collect(steps) ==
    IF \E i \in 1..Len(steps) : steps[i].kind = "raise"
    THEN steps[CHOOSE i \in 1..Len(steps) :
                   /\ steps[i].kind = "raise"
                   /\ \A j \in 1..(i - 1) : steps[j].kind # "raise"]
    ELSE Return([i \in 1..Len(steps) |-> steps[i].value])

----------------------------------------------------------------------------
(* The world outside: assets, prices, option records, HTTP answers *)

Queries == {"{options{id symbol status type strike expiration premium amount}}"}

AssetSelectors == {"Bitcoin", "bitcoin", "Ethereum", "ETHEREUM", "Litecoin", "NotACoin"}

\* str.lower() on the selectors above.
lower(a) ==
    CASE a \in {"Bitcoin", "bitcoin"} -> "bitcoin"
      [] a \in {"Ethereum", "ETHEREUM"} -> "ethereum"
      [] a = "Litecoin" -> "litecoin"
      [] OTHER -> "notacoin"

\* The usd quotes the price API may give for a coin id; none for an id it
\* does not know, where its JSON answer is {}.
SpotQuotes(id) ==
    CASE id = "bitcoin" -> {3}
      [] id = "ethereum" -> {2, 3}
      [] id = "litecoin" -> {1}
      [] OTHER -> {}

\* The ticker the subgraph uses for each pool, and the coin it stands for.
TickerAsset(t) == IF t = "WBTC" THEN "bitcoin" ELSE "ethereum"

Option(id, symbol, status, type, strike, expiration, premium, amount) ==
    [id |-> id, symbol |-> symbol, status |-> status, type |-> type, strike |-> strike,
     expiration |-> expiration, premium |-> premium, amount |-> amount]

\* The option records of the subgraph: a call, a put that expires at time 1
\* and whose premium no volatility explains, and one record for each other
\* way of not being an active option of the Ethereum pool.
Options ==
    { Option(1, "ETH",  "ACTIVE",    "CALL",  2, 9, 1, 2),
      Option(2, "ETH",  "ACTIVE",    "PUT",   2, 1, 3, 1),
      Option(3, "WBTC", "ACTIVE",    "CALL",  2, 9, 1, 2),
      Option(4, "ETH",  "EXERCISED", "PUT",   2, 9, 1, 2),
      Option(5, "ETH",  "ACTIVE",    "CALL",  0, 9, 1, 2),
      Option(6, "ETH",  "ACTIVE",    "OTHER", 2, 9, 1, 2) }

RawOption(id) == CHOOSE o \in Options : o.id = id

RECURSIVE SeqsUpTo(_, _)
SeqsUpTo(S, n) ==
    IF n = 0 THEN {<<>>}
    ELSE LET shorter == SeqsUpTo(S, n - 1)
         IN shorter \cup {Append(s, x) : s \in {t \in shorter : Len(t) = n - 1}, x \in S}

\* The answers of the query API: HTTP 200 with a list of records, or an
\* error status with no data.
Responses ==
    {[status_code |-> 200, data |-> d] : d \in SeqsUpTo(Options, MaxRows)}
    \cup {[status_code |-> c, data |-> <<>>] : c \in {500}}

----------------------------------------------------------------------------
(* py_vollib, the numerical library *)

\* The least and the largest price an option can have at zero rate.
Intrinsic(S, K, flag) == IF flag = "c" THEN Max(S - K, 0) ELSE Max(K - S, 0)

MaxPrice(S, K, flag) == IF flag = "c" THEN S ELSE K

\* implied_volatility(price, S, K, t, r, flag): the volatility that prices the
\* option at price.  There is none, and the call raises, for a price below
\* the intrinsic value or not below the largest price.
iv(price, S, K, t, r, flag) ==
    IF FracLt(price, Intrinsic(S, K, flag))
    THEN Raise("BelowIntrinsicException")
    ELSE IF ~FracLt(price, MaxPrice(S, K, flag))
    THEN Raise("AboveMaximumException")
    ELSE Return(Term("iv", <<price, S, K, t, r, flag>>))

\* What greeks.numerical does with sigma = NaN is not this program's to say:
\* a build of the library may raise, may hand back NaN, or may hand back a
\* number (a finite difference of prices that ignore sigma).
NanSigmaOutcomes == {"raise", "nan", "value"}

\* gn.delta, gn.gamma, gn.theta, gn.vega (S, K, t, r, sigma, flag)
gn(fn, S, K, t, r, sigma, flag) ==
    IF IsNaN(sigma) /\ nan_sigma = "raise" THEN Raise("ArithmeticError")
    ELSE IF IsNaN(sigma) /\ nan_sigma = "nan" THEN Return(NaN)
    ELSE Return(Term(fn, <<S, K, t, r, sigma, flag>>))

----------------------------------------------------------------------------
(* GetData *)

NoSelf == [query |-> "", asset |-> "", ticker |-> "", spot |-> 0]

\* __init__, lines 27-30
ticker_of(asset) == IF asset = "bitcoin" THEN "WBTC" ELSE "ETH"

\* __init__, lines 25-32, given the usd quote of the price API's answer
new_self(query, asset, usd) ==
    [query |-> query, asset |-> lower(asset), ticker |-> ticker_of(lower(asset)),
     spot |-> usd]

\* run_query without its check of the status code
run_query_unchecked(s, resp) == Return(resp.data)

\* run_query, lines 38-44, given the API's answer
run_query(s, resp) ==
    IF resp.status_code # 200
    THEN RaiseQueryFailed(resp.status_code, s.query)
    ELSE Return(resp.data)

SecondsPerYear == (60 * 60 * 24) * 365

\* format_data, line 63
time_to_expiry(row, now) == Frac(row.expiration - now, SecondsPerYear)

\* The filter without its test of the symbol
keep_any_symbol(s, row, now) ==
    /\ row.status = "ACTIVE"
    /\ FracPos(time_to_expiry(row, now))
    /\ row.strike > 0

\* format_data, lines 68-69: the rows the filter keeps
keep(s, row, now) ==
    /\ row.symbol = s.ticker
    /\ row.status = "ACTIVE"
    /\ FracPos(time_to_expiry(row, now))
    /\ row.strike > 0

\* format_data, line 71
type_flag(type) == IF type = "CALL" THEN "c" ELSE "p"

\* format_data, line 73
premium_usd(s, row) == Frac(row.premium * s.spot, row.amount)

\* One row of the table format_data returns.
clean_row(s, row, now) ==
    [id |-> row.id, symbol |-> row.symbol, status |-> row.status,
     type |-> type_flag(row.type), strike |-> row.strike,
     expiration |-> row.expiration, premium |-> row.premium, amount |-> row.amount,
     time_to_expiry |-> time_to_expiry(row, now), premium_usd |-> premium_usd(s, row)]

\* format_data, lines 61-74, given the API's answer and the clock's reading.
\* A DataFrame of no records has no columns, and df.expiration raises.
format_data(s, resp, now) ==
    LET fetched == run_query(s, resp)
        Kept(row) == keep(s, row, now)
        kept == SelectSeq(fetched.value, Kept)
    IN  IF fetched.kind = "raise" THEN fetched
        ELSE IF fetched.value = <<>> THEN Raise("AttributeError")
        ELSE Return([i \in 1..Len(kept) |-> clean_row(s, kept[i], now)])

\* The iteration without its try
iv_step_uncaught(s, row) ==
    iv(row.premium_usd, s.spot, row.strike, row.time_to_expiry, 0, row.type)

\* get_iv, lines 91-101: one iteration of the loop
iv_step(s, row) ==
    LET solved == iv(row.premium_usd, s.spot, row.strike, row.time_to_expiry, 0, row.type)
    IN  IF solved.kind = "raise" THEN Return(NaN) ELSE solved

\* get_iv, lines 88-103
get_iv(s, resp, now) ==
    LET table == format_data(s, resp, now)
    IN  IF table.kind = "raise" THEN table
        ELSE Collect([i \in 1..Len(table.value) |-> iv_step(s, table.value[i])])

GreekNames == <<"delta", "gamma", "theta", "vega">>

\* get_greeks, lines 118-149: one iteration of the loop, a row of greek_store
greek_step(s, row) ==
    LET raw == [k \in 1..4 |->
                  gn(GreekNames[k], s.spot, row.strike, row.time_to_expiry, 0, row.iv,
                     row.type)]
    IN  IF \E k \in 1..4 : raw[k].kind = "raise"
        THEN Return(<<NaN, NaN, NaN, NaN>>)
        ELSE Return([k \in 1..4 |-> raw[k].value])

\* The assembly with theta and vega in each other's column and gamma as the
\* library gave it
with_greeks_swapped(row, stored) ==
    [id |-> row.id, symbol |-> row.symbol, status |-> row.status, type |-> row.type,
     strike |-> row.strike, expiration |-> row.expiration, premium |-> row.premium,
     amount |-> row.amount, time_to_expiry |-> row.time_to_expiry,
     premium_usd |-> row.premium_usd, iv |-> row.iv,
     delta |-> Times(stored[1], -1), gamma |-> stored[2],
     theta |-> Times(stored[4], -1), vega |-> Times(stored[3], -1)]

\* get_greeks, lines 151-153: greek_store times -1, its columns named in
\* order and put beside the row's own
with_greeks(row, stored) ==
    [id |-> row.id, symbol |-> row.symbol, status |-> row.status, type |-> row.type,
     strike |-> row.strike, expiration |-> row.expiration, premium |-> row.premium,
     amount |-> row.amount, time_to_expiry |-> row.time_to_expiry,
     premium_usd |-> row.premium_usd, iv |-> row.iv,
     delta |-> Times(stored[1], -1), gamma |-> Times(stored[2], -1),
     theta |-> Times(stored[3], -1), vega |-> Times(stored[4], -1)]

\* get_greeks, line 114: df['iv'] = ..., one value for each row
with_iv(row, v) ==
    [id |-> row.id, symbol |-> row.symbol, status |-> row.status, type |-> row.type,
     strike |-> row.strike, expiration |-> row.expiration, premium |-> row.premium,
     amount |-> row.amount, time_to_expiry |-> row.time_to_expiry,
     premium_usd |-> row.premium_usd, iv |-> v]

\* get_greeks, lines 114-154, given the table of line 113 and what get_iv
\* ended with.  Assigning a column of another length raises, and so does
\* naming four columns on the frame built from an empty greek_store.
get_greeks_rest(s, table, ivs) ==
    IF ivs.kind = "raise" THEN ivs
    ELSE IF Len(ivs.value) # Len(table) THEN Raise("ValueError")
    ELSE LET rows == [i \in 1..Len(table) |-> with_iv(table[i], ivs.value[i])]
             greek_store == Collect([i \in 1..Len(rows) |-> greek_step(s, rows[i])])
         IN  IF greek_store.kind = "raise" THEN greek_store
             ELSE IF Len(rows) = 0 THEN Raise("ValueError")
             ELSE Return([i \in 1..Len(rows) |->
                             with_greeks(rows[i], greek_store.value[i])])

----------------------------------------------------------------------------
(* The program: a caller that builds an instance and calls its methods *)

Post(resp) == [status_code |-> resp.status_code, rows |-> Len(resp.data)]

Init ==
    /\ pc = "new"
    /\ self = NoSelf
    /\ clock = 0
    /\ nan_sigma \in NanSigmaOutcomes
    /\ df = <<>>
    /\ posts = <<>>
    /\ gets = 0
    /\ result = NoResult

\* GetData(query, asset) where the price API quotes the coin: lines 25-32
construct ==
    /\ pc = "new"
    /\ \E query \in Queries, asset \in AssetSelectors :
         \E usd \in SpotQuotes(lower(asset)) :
            /\ self' = new_self(query, asset, usd)
            /\ result' = Finished("__init__", Return(<<>>))
    /\ gets' = 1
    /\ pc' = "idle"
    /\ UNCHANGED <<clock, nan_sigma, df, posts>>

\* GetData(query, asset) where the price API's answer has no entry for the
\* coin: line 32 raises KeyError and there is no instance
construct_fails ==
    /\ pc = "new"
    /\ result.kind = "none"
    /\ \E asset \in AssetSelectors :
         /\ SpotQuotes(lower(asset)) = {}
         /\ result' = Finished("__init__", Raise("KeyError"))
    /\ gets' = 1
    /\ UNCHANGED <<pc, self, clock, nan_sigma, df, posts>>

\* self.run_query()
run_query_call ==
    /\ pc = "idle"
    /\ \E resp \in Responses :
         /\ result' = Finished("run_query", run_query(self, resp))
         /\ posts' = <<Post(resp)>>
    /\ pc' = "done"
    /\ UNCHANGED <<self, clock, nan_sigma, df, gets>>

\* format_data fetching the spot price again
format_data_call_refetch ==
    /\ pc = "idle"
    /\ \E resp \in Responses, usd \in SpotQuotes(self.asset) :
         LET again == [self EXCEPT !.spot = usd]
         IN  /\ self' = again
             /\ result' = Finished("format_data", format_data(again, resp, clock))
             /\ posts' = <<Post(resp)>>
    /\ pc' = "done"
    /\ UNCHANGED <<clock, nan_sigma, df, gets>>

\* self.format_data()
format_data_call ==
    /\ pc = "idle"
    /\ \E resp \in Responses :
         /\ result' = Finished("format_data", format_data(self, resp, clock))
         /\ posts' = <<Post(resp)>>
    /\ pc' = "done"
    /\ UNCHANGED <<self, clock, nan_sigma, df, gets>>

\* self.get_iv()
get_iv_call ==
    /\ pc = "idle"
    /\ \E resp \in Responses :
         LET table == format_data(self, resp, clock)
         IN  /\ result' = Finished("get_iv", get_iv(self, resp, clock))
             /\ posts' = <<Post(resp)>>
             /\ df' = IF table.kind = "raise" THEN <<>> ELSE table.value
    /\ pc' = "done"
    /\ UNCHANGED <<self, clock, nan_sigma, gets>>

\* self.get_greeks(), line 113: df = self.format_data()
get_greeks_call ==
    /\ pc = "idle"
    /\ \E resp \in Responses :
         LET table == format_data(self, resp, clock)
         IN  /\ posts' = <<Post(resp)>>
             /\ IF table.kind = "raise"
                THEN /\ result' = Finished("get_greeks", table)
                     /\ pc' = "done"
                     /\ df' = <<>>
                ELSE /\ result' = NoResult
                     /\ pc' = "greeks"
                     /\ df' = table.value
    /\ UNCHANGED <<self, clock, nan_sigma, gets>>

\* self.get_greeks(), lines 114-154: df['iv'] = self.get_iv() and the rest
get_greeks_finish ==
    /\ pc = "greeks"
    /\ \E resp \in Responses :
         /\ result' = Finished("get_greeks",
                               get_greeks_rest(self, df, get_iv(self, resp, clock)))
         /\ posts' = Append(posts, Post(resp))
    /\ pc' = "done"
    /\ UNCHANGED <<self, clock, nan_sigma, df, gets>>

\* The caller takes what the method returned or raised and goes on.
next_call ==
    /\ pc = "done"
    /\ pc' = "idle"
    /\ result' = NoResult
    /\ posts' = <<>>
    /\ df' = <<>>
    /\ UNCHANGED <<self, clock, nan_sigma, gets>>

\* Time passes.
tick ==
    /\ clock < MaxClock
    /\ clock' = clock + 1
    /\ UNCHANGED <<pc, self, nan_sigma, df, posts, gets, result>>

Next ==
    \/ construct
    \/ construct_fails
    \/ run_query_call
    \/ format_data_call
    \/ get_iv_call
    \/ get_greeks_call
    \/ get_greeks_finish
    \/ next_call
    \/ tick

Spec == Init /\ [][Next]_vars

----------------------------------------------------------------------------
(* Properties *)

Returned(op) == pc = "done" /\ result.op = op /\ result.kind = "return"

Raised(op) == pc = "done" /\ result.op = op /\ result.kind = "raise"

\* A table came back from format_data or from get_greeks.
TableReturned == Returned("format_data") \/ Returned("get_greeks")

Rows == 1..Len(result.value)

\* What the Greek evaluator gives for a row of the final table.
RawGreek(row, k) ==
    gn(GreekNames[k], self.spot, row.strike, row.time_to_expiry, 0, row.iv, row.type)

Reported(row) == <<row.delta, row.gamma, row.theta, row.vega>>

\* C1: every row of a table returned by format_data or get_greeks is an
\* ACTIVE record of the instance's ticker with a positive strike and a
\* positive time to expiry, in the row's own columns and in the record the
\* subgraph holds under the row's id.
C1_RetainedRowsPassFilter ==
    TableReturned =>
        \A i \in Rows :
            LET row == result.value[i] IN
            /\ row.status = "ACTIVE" /\ RawOption(row.id).status = "ACTIVE"
            /\ row.symbol = self.ticker /\ RawOption(row.id).symbol = self.ticker
            /\ row.strike > 0 /\ RawOption(row.id).strike > 0
            /\ FracPos(row.time_to_expiry)

\* C1 witness: get_greeks returned a table with a row in it after the filter
\* had dropped a record of the answer.
C1_Witness ==
    /\ Returned("get_greeks")
    /\ Len(result.value) >= 1
    /\ Len(result.value) < posts[1].rows

\* C2: once the query API has answered with a status other than 200, the
\* method in progress ends by raising the exception that carries that status
\* code and the instance's query, and returns no table; get_greeks never goes
\* on to its second fetch after such an answer.
C2_QueryFailurePropagates ==
    \A i \in 1..Len(posts) :
        posts[i].status_code # 200 =>
            /\ pc = "done"
            /\ result.kind = "raise"
            /\ result.exc = "Exception"
            /\ result.code = posts[i].status_code
            /\ result.query = self.query
            /\ result.value = <<>>

\* C2 witness: get_greeks cleaned a table of one row or more, its second
\* fetch was answered 500, and it raised.
C2_Witness ==
    /\ Raised("get_greeks")
    /\ Len(posts) = 2
    /\ posts[1].status_code = 200
    /\ posts[2].status_code = 500
    /\ Len(df) >= 1

\* C3: in the table get_greeks returns, the iv of every row is the
\* volatility solved (or found missing) from that row's own premium_usd,
\* strike, time_to_expiry and type.
C3_IvColumnIsOfSameRows ==
    Returned("get_greeks") =>
        \A i \in Rows : result.value[i].iv = iv_step(self, result.value[i]).value

\* C4: when get_greeks ends, the instance has made two network calls in all:
\* the spot price fetch of its construction and one call of the query API.
C4_TwoNetworkCalls ==
    (pc = "done" /\ result.op = "get_greeks") => (gets = 1 /\ Len(posts) = 1)

\* C5: in the table get_greeks returns, a row whose iv is missing has delta,
\* gamma, theta and vega all missing.
C5_MissingIvMissingGreeks ==
    Returned("get_greeks") =>
        \A i \in Rows :
            IsNaN(result.value[i].iv) =>
                \A k \in 1..4 : IsNaN(Reported(result.value[i])[k])

\* C6: in the table get_greeks returns, for every row on which the four
\* Greek evaluations succeed, delta, gamma, theta and vega are -1 times what
\* the evaluator of that name gives for the row's spot, strike,
\* time_to_expiry, rate 0, iv and type.
C6_ReportedIsMinusRaw ==
    Returned("get_greeks") =>
        \A i \in Rows :
            LET row == result.value[i] IN
            (\A k \in 1..4 : RawGreek(row, k).kind = "return") =>
                \A k \in 1..4 :
                    LET raw == RawGreek(row, k).value IN
                    /\ Reported(row)[k].coef = -1 * raw.coef
                    /\ Reported(row)[k].fn = raw.fn
                    /\ Reported(row)[k].args = raw.args

\* C6 witness: get_greeks returned a row whose four evaluations succeeded
\* with numbers.
C6_Witness ==
    /\ Returned("get_greeks")
    /\ \E i \in Rows :
         /\ ~IsNaN(result.value[i].iv)
         /\ \A k \in 1..4 : RawGreek(result.value[i], k).kind = "return"
         /\ \A k \in 1..4 : Reported(result.value[i])[k].coef = -1

NumericalErrors == {"BelowIntrinsicException", "AboveMaximumException", "ArithmeticError"}

\* The cleaned columns of a row.
SameOption(a, b) ==
    /\ a.id = b.id /\ a.type = b.type /\ a.strike = b.strike
    /\ a.time_to_expiry = b.time_to_expiry /\ a.premium_usd = b.premium_usd

\* C7: no method ever ends with an exception of the solver or of a Greek
\* evaluator.  get_iv returns one value for each row of its cleaned table,
\* NaN where the solver failed on the row and the solved volatility where it
\* did not.  What get_greeks returns has the rows of its cleaned table, one
\* for one and in order, with four NaN on a row where an evaluation failed
\* and -1 times the row's own evaluations elsewhere.
C7_RowFailuresAreAbsorbed ==
    /\ pc = "done" => result.exc \notin NumericalErrors
    /\ (pc = "done" /\ result.op = "get_iv" /\ Len(posts) = 1
        /\ posts[1].status_code = 200 /\ posts[1].rows > 0) =>
           /\ result.kind = "return"
           /\ Len(result.value) = Len(df)
           /\ \A i \in 1..Len(df) :
                LET solved == iv(df[i].premium_usd, self.spot, df[i].strike,
                                 df[i].time_to_expiry, 0, df[i].type)
                IN  result.value[i] = IF solved.kind = "raise" THEN NaN ELSE solved.value
    /\ Returned("get_greeks") =>
           /\ Len(result.value) = Len(df)
           /\ \A i \in Rows :
                LET row == result.value[i] IN
                /\ SameOption(row, df[i])
                /\ IF \E k \in 1..4 : RawGreek(row, k).kind = "raise"
                   THEN \A k \in 1..4 : IsNaN(Reported(row)[k])
                   ELSE \A k \in 1..4 :
                           Reported(row)[k] = Times(RawGreek(row, k).value, -1)

\* C7 witness: get_greeks returned a table in which the evaluation failed on
\* one row, whose volatility the solver had not found, and succeeded with
\* numbers on another.
C7_Witness ==
    /\ Returned("get_greeks")
    /\ \E i, j \in Rows :
         /\ IsNaN(result.value[i].iv)
         /\ RawGreek(result.value[i], 1).kind = "raise"
         /\ IsNaN(result.value[i].delta)
         /\ ~IsNaN(result.value[j].iv)
         /\ ~IsNaN(result.value[j].delta)

\* C8: in every constructed instance the asset is one of the two supported
\* ones, and the ticker is that of the asset whose spot price was fetched.
C8_TickerIsOfSpotAsset ==
    pc # "new" =>
        /\ self.asset \in {"bitcoin", "ethereum"}
        /\ TickerAsset(self.ticker) = self.asset

\* C9: once the instance is constructed no step changes its query, asset,
\* ticker or spot.
C9_InstanceNeverChanges == [][pc # "new" => self' = self]_vars

\* C9 witness: on an Ethereum instance built at spot 3, get_greeks returned
\* rows whose premium_usd is premium * 3 / amount.
C9_Witness ==
    /\ Returned("get_greeks")
    /\ self.asset = "ethereum" /\ self.spot = 3
    /\ \E i \in Rows :
         result.value[i].premium_usd
             = Frac(result.value[i].premium * 3, result.value[i].amount)

\* C10: in every returned table the type of a row is 'c' or 'p', 'c' exactly
\* when the record's raw type is CALL and 'p' exactly when it is PUT.
C10_TypeFlagIsOfRawType ==
    TableReturned =>
        \A i \in Rows :
            LET row == result.value[i] IN
            /\ row.type \in {"c", "p"}
            /\ row.type = "c" <=> RawOption(row.id).type = "CALL"
            /\ row.type = "p" <=> RawOption(row.id).type = "PUT"

====
